---- MODULE Spec2Model ----
(***************************************************************************)
(* layer4-proxy-rs: configuration loading/validation (src/src/config.rs)   *)
(* and upstream address resolution with a TTL cache                        *)
(* (src/src/servers/upstream_address.rs).                                  *)
(*                                                                         *)
(* The specifications of the module:                                       *)
(*   SpecResolve     - concurrent ProxyToUpstream::resolve_addresses calls *)
(*                     on one upstream, with a clock and a                 *)
(*                     nondeterministic DNS.                               *)
(*   SpecResolveFair - the same under fair scheduling, with fewer DNS      *)
(*                     outcomes.                                           *)
(*   SpecLoad        - load_config and verify_config on any document with  *)
(*                     at most one server, drawn when it is first read.    *)
(*   SpecDocs        - the same on whole documents, servers included.      *)
(*   SpecVerify      - the same on documents with valid upstreams and any  *)
(*                     servers.                                            *)
(*   SpecScope       - the same on documents with valid upstreams whose    *)
(*                     servers refer to declared, builtin and undeclared   *)
(*                     upstreams.                                          *)
(***************************************************************************)
EXTENDS Integers, Sequences, FiniteSets, TLC

\* Option<T>: None is the empty sequence, Some(x) the one-element sequence.
None == <<>>
Some(x) == <<x>>

-----------------------------------------------------------------------------
(* Bounds of the resolver model *)

\* concurrent tasks calling resolve_addresses on the same ProxyToUpstream
NumCallers == 2
\* calls made in all, by all tasks together
MaxCalls == 3
\* the clock stops advancing here (seconds)
MaxTime == 62
\* longest DNS answer
MaxAnswerLen == 2

Callers == 1..NumCallers

(* Program constants *)

\* Duration::seconds(3), the TTL set after a failed lookup
NegTTL == 3
\* Duration::minutes(1), the TTL set after a successful lookup, in seconds
PosTTL == 60

\* the instants at which the clock is observed: second by second through the
\* negative TTL, and again from one second before the positive TTL can expire
Instants == {t \in 0..MaxTime : t <= NegTTL \/ t >= PosTTL - 1}

\* Socket addresses a lookup may yield, and their families.
V4Addrs == {"192.0.2.1:5432", "192.0.2.2:5432"}
V6Addrs == {"[2001:db8::1]:5432"}
SocketAddrs == V4Addrs \cup V6Addrs
is_ipv4(a) == a \in V4Addrs
is_ipv6(a) == a \in V6Addrs

\* io::Error values tokio::net::lookup_host may return
DnsErrors == {"NXDOMAIN", "SERVFAIL"}

SeqsUpTo(S, n) == UNION {[1..k -> S] : k \in 0..n}
DnsAnswers == SeqsUpTo(SocketAddrs, MaxAnswerLen)

\* scheme strings a ProxyToUpstream.protocol may hold after load_config
Schemes == {"tcp", "tcp4", "tcp6"}

-----------------------------------------------------------------------------
(* Bounds and input domains of the loader model *)

\* longest listen list of a server
MaxListen == 2

ListenAddrs == {"0.0.0.0:443", "0.0.0.0:80"}
ServerNames == {"web", "mail"}
SniHosts == {"example.com"}
\* upstream names a document may declare, and names its servers may refer to
UserNames == {"db", "ban"}
RefNames == {"db"}
BuiltinNames == {"ban", "echo"}
LogLevels == {"disable", "debug"}
Versions == {1, 2}

\* Upstream URL strings a document may give
ValidUrls == {"tcp://db.internal:5432", "tcp4://db.internal:5432",
              "tcp6://db.internal:5432"}
Urls == ValidUrls \cup
        {"tcp://db.internal", "tcp:db.internal", "http://db.internal:1234",
         "http://db.internal", "unix:/run/db.sock", "//db.internal:5432"}

\* What Url::parse makes of each of them: whether it parses, its scheme(),
\* its host_str() and its port().
Parsed(scheme, host, port) ==
  [parses |-> TRUE, scheme |-> scheme, host |-> host, port |-> port]
UrlParse(text) ==
  CASE text = "tcp://db.internal:5432"  -> Parsed("tcp", Some("db.internal"), Some(5432))
    [] text = "tcp4://db.internal:5432" -> Parsed("tcp4", Some("db.internal"), Some(5432))
    [] text = "tcp6://db.internal:5432" -> Parsed("tcp6", Some("db.internal"), Some(5432))
    [] text = "tcp://db.internal"       -> Parsed("tcp", Some("db.internal"), None)
    [] text = "tcp:db.internal"         -> Parsed("tcp", None, None)
    [] text = "http://db.internal:1234" -> Parsed("http", Some("db.internal"), Some(1234))
    [] text = "http://db.internal"      -> Parsed("http", Some("db.internal"), None)
    [] text = "unix:/run/db.sock"       -> Parsed("unix", None, None)
    [] OTHER -> [parses |-> FALSE, scheme |-> "", host |-> None, port |-> None]

\* all maps from a subset of K to V (a HashMap<K, V>)
Maps(K, V) == UNION {[D -> V] : D \in SUBSET K}

SniMaps == {m \in Maps(SniHosts, RefNames) : DOMAIN m # {}}
ListenLists == SeqsUpTo(ListenAddrs, MaxListen) \ {<<>>}

\* ServerConfig
ServerConfigs ==
  [listen : ListenLists, protocol : {None}, tls : {None, Some(FALSE), Some(TRUE)},
   sni : {None} \cup {Some(m) : m \in SniMaps},
   default : {None} \cup {Some(n) : n \in RefNames}]

\* the values of base.servers: any servers (SpecVerify), one server at most
\* (SpecLoad)
ServerMaps == Maps(ServerNames, ServerConfigs)
OneServerMaps == {m \in ServerMaps : Cardinality(DOMAIN m) <= 1}

\* the values of BaseConfig, its servers field apart: any document (SpecLoad),
\* and documents of version 1 whose upstream URLs are all valid (SpecVerify)
BaseDocs ==
  [version : Versions, log : {None} \cup {Some(l) : l \in LogLevels},
   upstream : Maps(UserNames, Urls)]
ValidDocs ==
  [version : {1}, log : {Some("disable")},
   upstream : Maps(UserNames, {"tcp://db.internal:5432"})]
\* servers with one listen address each that refer to a declared name, a
\* builtin and a name no document declares (SpecScope)
ScopeRefNames == {"db", "ban", "cache"}
ScopeServerConfigs ==
  [listen : {<<a>> : a \in ListenAddrs}, protocol : {None},
   tls : {None, Some(TRUE)},
   sni : {None} \cup {Some(m) : m \in Maps(SniHosts, ScopeRefNames) \ {<<>>}},
   default : {None} \cup {Some(n) : n \in ScopeRefNames}]
ScopeServerMaps == Maps(ServerNames, ScopeServerConfigs)

\* whole documents, servers included (SpecDocs)
FullDocs ==
  [version : Versions, log : {None} \cup {Some(l) : l \in LogLevels},
   upstream : Maps(UserNames, Urls), servers : OneServerMaps]

VARIABLES
  \* ---- loader (SpecLoad) ----
  lpc,                 \* position inside load_config / verify_config
  base,                \* the deserialized BaseConfig, servers apart (base.servers
                       \* is drawn when load_config first reads it)
  logger,              \* level the process-wide logger was initialised at
  todo,                \* upstream entries the loop at config.rs:112 has left
  parsed_upstream,     \* load_config's parsed_upstream
  config,              \* the ParsedConfig handed to verify_config
  upstream_names,      \* verify_config's upstream_names
  listen_addresses,    \* verify_config's listen_addresses
  used_upstreams,      \* verify_config's used_upstreams
  todo_servers,        \* servers the loop at config.rs:199 has left
  warned,              \* upstream names warned about as unused
  result,              \* what load_config returned
  \* ---- resolver (SpecResolve) ----
  now,                 \* the monotonic clock, in seconds
  protocol,            \* ProxyToUpstream.protocol
  resolved_addresses,  \* UpstreamAddress.resolved_addresses
  resolved_time,       \* UpstreamAddress.resolved_time : Option<Instant>
  ttl,                 \* UpstreamAddress.ttl : Option<Duration>
  lock,                \* set of holders of Addr's tokio Mutex, {} when free
  pc,                  \* position of each caller inside resolve_addresses
  ret,                 \* value returned by each caller's latest call
  cold,                \* whether the caller's latest call was issued on a
                       \* cache that had never been resolved (history)
  ncalls,              \* calls issued so far, by all callers together
  lookups,             \* lookup_host calls started so far (history)
  lastOk,              \* latest successful lookup (history):
                       \*   Option<[n, at, answer, addrs]>
  lastErr              \* latest failed lookup (history): Option<[n, at, err]>

rvars == <<now, protocol, resolved_addresses, resolved_time, ttl, lock, pc, ret,
           cold, ncalls, lookups, lastOk, lastErr>>

lvars == <<lpc, base, logger, todo, parsed_upstream, config,
           upstream_names, listen_addresses, used_upstreams, todo_servers,
           warned, result>>

vars == <<rvars, lvars>>

-----------------------------------------------------------------------------
(* UpstreamAddress *)

\* impl From<&str> for ResolutionMode
ResolutionModeFrom(value) ==
  CASE value = "tcp4" -> "Ipv4"
    [] value = "tcp6" -> "Ipv6"
    [] value = "tcp"  -> "Ipv4AndIpv6"
    [] OTHER          -> "panic"

\* is_valid that still holds at the instant the TTL has elapsed
is_valid_Inclusive ==
  IF resolved_time # None /\ ttl # None
    THEN now - resolved_time[1] <= ttl[1]
    ELSE FALSE

\* is_valid with the comparison turned round
is_valid_Reversed ==
  IF resolved_time # None /\ ttl # None
    THEN now - resolved_time[1] > ttl[1]
    ELSE FALSE

\* UpstreamAddress::is_valid: resolved.elapsed() < ttl
is_valid ==
  IF resolved_time # None /\ ttl # None
    THEN now - resolved_time[1] < ttl[1]
    ELSE FALSE

\* UpstreamAddress::is_resolved
is_resolved == Len(resolved_addresses) > 0

\* the fast path condition of UpstreamAddress::resolve
CacheHit == is_resolved /\ is_valid

\* the match on mode with the Ipv6 arm left unfiltered
FilterByMode_NoV6Arm(mode, answer) ==
  CASE mode = "Ipv4" -> SelectSeq(answer, is_ipv4)
    [] OTHER         -> answer

\* the match on mode in UpstreamAddress::resolve
FilterByMode(mode, answer) ==
  CASE mode = "Ipv4" -> SelectSeq(answer, is_ipv4)
    [] mode = "Ipv6" -> SelectSeq(answer, is_ipv6)
    [] OTHER         -> answer

Ok(l) == [kind |-> "ok", addrs |-> l]
Err(e) == [kind |-> "err", err |-> e]
NoRet == [kind |-> "none"]

\* a lock that is granted whether or not it is held
CanLock_Always(c) == TRUE

\* tokio Mutex::lock().await completes only while nobody holds the mutex
CanLock(c) == lock = {}

\* a failed lookup reported as an empty success
ErrReturn_Swallowed(e) == Ok(<<>>)

\* what the Err(e) arm of the match on lookup_result returns
ErrReturn(e) == Err(e)

-----------------------------------------------------------------------------
(* load_config and verify_config *)

\* ConfigError::Custom(format!("<msg> {}", arg))
Custom(msg, arg) == [ok |-> FALSE, msg |-> msg, arg |-> arg]
Loaded == [ok |-> TRUE]

\* HashMap::insert: an existing entry of the same key is overwritten
Insert(m, k, v) == (k :> v) @@ m

\* Url::port_or_known_default: the explicit port, else the scheme's default
KnownDefaultPort(scheme) ==
  CASE scheme = "http"  -> Some(80)
    [] scheme = "https" -> Some(443)
    [] scheme = "ws"    -> Some(80)
    [] scheme = "wss"   -> Some(443)
    [] scheme = "ftp"   -> Some(21)
    [] OTHER            -> None
port_or_known_default(url) ==
  IF url.port # None THEN url.port ELSE KnownDefaultPort(url.scheme)

\* format!("{}:{}", upstream_host, upstream_port)
HostPort(host, port) == host \o ":" \o ToString(port)

\* the loop body without the match on the scheme
ParseUpstream_NoSchemeMatch(name, upstream) ==
  LET url == UrlParse(upstream) IN
  IF ~url.parses THEN Custom("Invalid upstream url", upstream)
  ELSE IF url.host = None THEN Custom("Invalid upstream url", upstream)
  ELSE IF port_or_known_default(url) = None
    THEN Custom("Invalid upstream url", upstream)
  ELSE [ok |-> TRUE,
        proxy |-> [kind |-> "Proxy", name |-> name,
                   addr |-> HostPort(url.host[1], port_or_known_default(url)[1]),
                   protocol |-> url.scheme,
                   addresses |-> HostPort(url.host[1],
                                          port_or_known_default(url)[1])]]

\* the loop body with the scheme match moved in front of the host and port
\* matches
ParseUpstream_SchemeFirst(name, upstream) ==
  LET url == UrlParse(upstream) IN
  IF ~url.parses THEN Custom("Invalid upstream url", upstream)
  ELSE IF url.scheme \notin {"tcp", "tcp4", "tcp6"}
    THEN Custom("Invalid upstream scheme", upstream)
  ELSE IF url.host = None THEN Custom("Invalid upstream url", upstream)
  ELSE IF port_or_known_default(url) = None
    THEN Custom("Invalid upstream url", upstream)
  ELSE [ok |-> TRUE,
        proxy |-> [kind |-> "Proxy", name |-> name,
                   addr |-> HostPort(url.host[1], port_or_known_default(url)[1]),
                   protocol |-> url.scheme,
                   addresses |-> HostPort(url.host[1],
                                          port_or_known_default(url)[1])]]

\* the body of the loop over base.upstream (config.rs:113-165) for one entry:
\* an error, or the Upstream::Proxy to insert
ParseUpstream(name, upstream) ==
  LET url == UrlParse(upstream) IN
  IF ~url.parses THEN Custom("Invalid upstream url", upstream)
  ELSE IF url.host = None THEN Custom("Invalid upstream url", upstream)
  ELSE IF port_or_known_default(url) = None
    THEN Custom("Invalid upstream url", upstream)
  ELSE IF url.scheme \notin {"tcp", "tcp4", "tcp6"}
    THEN Custom("Invalid upstream scheme", upstream)
  ELSE [ok |-> TRUE,
        proxy |-> [kind |-> "Proxy", name |-> name,
                   addr |-> HostPort(url.host[1], port_or_known_default(url)[1]),
                   protocol |-> url.scheme,
                   addresses |-> HostPort(url.host[1],
                                          port_or_known_default(url)[1])]]

Ban == [kind |-> "Ban"]
Echo == [kind |-> "Echo"]

\* the two inserts at config.rs:168-170
InjectBuiltins(m) == Insert(Insert(m, "ban", Ban), "echo", Echo)

\* all orders in which a HashMap or HashSet may yield the elements of S
Orders(S) ==
  {o \in [1..Cardinality(S) -> S] : \A i, j \in DOMAIN o : i # j => o[i] # o[j]}

\* the loop at config.rs:188-197 over the keys in iteration order `order`:
\* the first key already in `seen`, if any, and the names seen
RECURSIVE ScanNames(_, _, _)
ScanNames(order, i, seen) ==
  IF i > Len(order) THEN [dup |-> None, seen |-> seen]
  ELSE IF order[i] \in seen THEN [dup |-> Some(order[i]), seen |-> seen]
  ELSE ScanNames(order, i + 1, seen \cup {order[i]})

\* the loop at config.rs:201-210 over one server's listen list, from index i:
\* the first address already in `seen`, if any, and the addresses seen
RECURSIVE ScanListen(_, _, _)
ScanListen(listen, i, seen) ==
  IF i > Len(listen) THEN [dup |-> None, seen |-> seen]
  ELSE IF listen[i] \in seen THEN [dup |-> Some(listen[i]), seen |-> seen]
  ELSE ScanListen(listen, i + 1, seen \cup {listen[i]})

\* a listen check that forgets the addresses of the servers before
CheckListen_PerServer(listen, seen) == ScanListen(listen, 1, {})

\* the listen check of one server against listen_addresses
CheckListen(listen, seen) == ScanListen(listen, 1, seen)

\* reference collection that leaves out the server's default
Referenced_NoDefault(server) ==
  IF server.tls # None /\ server.tls[1] /\ server.sni # None
    THEN {server.sni[1][h] : h \in DOMAIN server.sni[1]}
    ELSE {}

\* the names one server adds to used_upstreams (config.rs:212-220)
Referenced(server) ==
  (IF (IF server.tls = None THEN FALSE ELSE server.tls[1]) /\ server.sni # None
     THEN {server.sni[1][h] : h \in DOMAIN server.sni[1]}
     ELSE {})
  \cup (IF server.default # None THEN {server.default[1]} ELSE {})

\* the keys of `used` the loop at config.rs:222-226 can fail on
Missing(used, upstream) == {key \in used : key \notin DOMAIN upstream}

LoaderOff ==
  /\ lpc = "off"
  /\ base = None
  /\ logger = None
  /\ todo = {}
  /\ parsed_upstream = <<>>
  /\ config = None
  /\ upstream_names = {}
  /\ listen_addresses = {}
  /\ used_upstreams = {}
  /\ todo_servers = {}
  /\ warned = {}
  /\ result = None

ResolverOff ==
  /\ now = 0
  /\ protocol = "tcp"
  /\ resolved_addresses = <<>>
  /\ resolved_time = None
  /\ ttl = None
  /\ lock = {}
  /\ pc = [c \in Callers |-> "idle"]
  /\ ret = [c \in Callers |-> NoRet]
  /\ cold = [c \in Callers |-> FALSE]
  /\ ncalls = 0
  /\ lookups = 0
  /\ lastOk = None
  /\ lastErr = None

-----------------------------------------------------------------------------
(* Actions of SpecResolve *)

InitResolve ==
  /\ now = 0
  /\ protocol \in Schemes
  /\ resolved_addresses = <<>>
  /\ resolved_time = None
  /\ ttl = None
  /\ lock = {}
  /\ pc = [c \in Callers |-> "idle"]
  /\ ret = [c \in Callers |-> NoRet]
  /\ cold = [c \in Callers |-> FALSE]
  /\ ncalls = 0
  /\ lookups = 0
  /\ lastOk = None
  /\ lastErr = None
  /\ LoaderOff

\* a task enters resolve_addresses and waits on self.addresses.0.lock()
Call(c) ==
  /\ pc[c] \in {"idle", "done"}
  /\ ncalls < MaxCalls
  /\ pc' = [pc EXCEPT ![c] = "lock"]
  /\ ncalls' = ncalls + 1
  /\ ret' = [ret EXCEPT ![c] = NoRet]
  /\ cold' = [cold EXCEPT ![c] = (resolved_time = None)]
  /\ UNCHANGED <<now, protocol, resolved_addresses, resolved_time, ttl, lock,
                 lookups, lastOk, lastErr>>
  /\ UNCHANGED lvars

\* the lock future completes: the caller now owns the MutexGuard and
\* UpstreamAddress::resolve starts
Lock(c) ==
  /\ pc[c] = "lock"
  /\ CanLock(c)
  /\ lock' = lock \cup {c}
  /\ pc' = [pc EXCEPT ![c] = "resolve"]
  /\ UNCHANGED <<now, protocol, resolved_addresses, resolved_time, ttl, ret, cold,
                 ncalls, lookups, lastOk, lastErr>>
  /\ UNCHANGED lvars

\* UpstreamAddress::resolve, fast path: return the cached list, drop the guard
ResolveHit(c) ==
  /\ pc[c] = "resolve"
  /\ CacheHit
  /\ ret' = [ret EXCEPT ![c] = Ok(resolved_addresses)]
  /\ pc' = [pc EXCEPT ![c] = "done"]
  /\ lock' = lock \ {c}
  /\ UNCHANGED <<now, protocol, resolved_addresses, resolved_time, ttl, cold,
                 ncalls, lookups, lastOk, lastErr>>
  /\ UNCHANGED lvars

\* UpstreamAddress::resolve, slow path: start tokio::net::lookup_host
ResolveMiss(c) ==
  /\ pc[c] = "resolve"
  /\ ~CacheHit
  /\ lookups' = lookups + 1
  /\ pc' = [pc EXCEPT ![c] = "lookup"]
  /\ UNCHANGED <<now, protocol, resolved_addresses, resolved_time, ttl, lock, ret,
                 cold, ncalls, lastOk, lastErr>>
  /\ UNCHANGED lvars

\* a failed lookup that also empties the stored list
LookupErr_ClearsList(c, e) ==
  /\ pc[c] = "lookup"
  /\ resolved_addresses' = <<>>
  /\ resolved_time' = Some(now)
  /\ ttl' = Some(NegTTL)
  /\ ret' = [ret EXCEPT ![c] = ErrReturn(e)]
  /\ lastErr' = Some([n |-> lookups, at |-> now, err |-> e])
  /\ pc' = [pc EXCEPT ![c] = "done"]
  /\ lock' = lock \ {c}
  /\ UNCHANGED <<now, protocol, cold, ncalls, lookups, lastOk>>
  /\ UNCHANGED lvars

\* a failed lookup that returns without dropping the guard
LookupErr_KeepsLock(c, e) ==
  /\ pc[c] = "lookup"
  /\ resolved_time' = Some(now)
  /\ ttl' = Some(NegTTL)
  /\ ret' = [ret EXCEPT ![c] = ErrReturn(e)]
  /\ lastErr' = Some([n |-> lookups, at |-> now, err |-> e])
  /\ pc' = [pc EXCEPT ![c] = "done"]
  /\ lock' = lock
  /\ UNCHANGED <<now, protocol, resolved_addresses, cold, ncalls, lookups, lastOk>>
  /\ UNCHANGED lvars

\* lookup_host fails: timestamp, 3 s TTL, return Err(e), drop the guard
LookupErr(c, e) ==
  /\ pc[c] = "lookup"
  /\ resolved_time' = Some(now)
  /\ ttl' = Some(NegTTL)
  /\ ret' = [ret EXCEPT ![c] = ErrReturn(e)]
  /\ lastErr' = Some([n |-> lookups, at |-> now, err |-> e])
  /\ pc' = [pc EXCEPT ![c] = "done"]
  /\ lock' = lock \ {c}
  /\ UNCHANGED <<now, protocol, resolved_addresses, cold, ncalls, lookups, lastOk>>
  /\ UNCHANGED lvars

\* lookup_host succeeds: filter, store, timestamp, 60 s TTL, return, drop guard
LookupOk(c, answer) ==
  LET addresses == FilterByMode(ResolutionModeFrom(protocol), answer) IN
  /\ pc[c] = "lookup"
  /\ resolved_addresses' = addresses
  /\ resolved_time' = Some(now)
  /\ ttl' = Some(PosTTL)
  /\ ret' = [ret EXCEPT ![c] = Ok(resolved_addresses')]
  /\ lastOk' = Some([n |-> lookups, at |-> now, answer |-> answer,
                     addrs |-> resolved_addresses'])
  /\ pc' = [pc EXCEPT ![c] = "done"]
  /\ lock' = lock \ {c}
  /\ UNCHANGED <<now, protocol, cold, ncalls, lookups, lastErr>>
  /\ UNCHANGED lvars

\* time passes
Tick ==
  /\ \E t \in Instants : t > now /\ now' = t
  /\ UNCHANGED <<protocol, resolved_addresses, resolved_time, ttl, lock, pc, ret,
                 cold, ncalls, lookups, lastOk, lastErr>>
  /\ UNCHANGED lvars

NextResolve ==
  \/ \E c \in Callers : Call(c)
  \/ \E c \in Callers : Lock(c)
  \/ \E c \in Callers : ResolveHit(c)
  \/ \E c \in Callers : ResolveMiss(c)
  \/ \E c \in Callers, e \in DnsErrors : LookupErr(c, e)
  \/ \E c \in Callers, a \in DnsAnswers : LookupOk(c, a)
  \/ Tick

SpecResolve == InitResolve /\ [][NextResolve]_vars

\* the outcomes lookup_host has under SpecResolveFair: one error, and the
\* answers of at most one IPv4 address
FairErrors == {"NXDOMAIN"}
FairAnswers == {a \in DnsAnswers : Len(a) <= 1 /\ \A i \in DOMAIN a : is_ipv4(a[i])}

\* lookup_host returns, with either outcome
LookupReturns(c) ==
  \/ \E e \in FairErrors : LookupErr(c, e)
  \/ \E a \in FairAnswers : LookupOk(c, a)

InitResolveFair == InitResolve /\ protocol = "tcp"

NextResolveFair ==
  \/ \E c \in Callers : Call(c)
  \/ \E c \in Callers : Lock(c)
  \/ \E c \in Callers : ResolveHit(c)
  \/ \E c \in Callers : ResolveMiss(c)
  \/ \E c \in Callers : LookupReturns(c)
  \/ Tick

\* what the runtime guarantees a task inside resolve_addresses: the tokio
\* Mutex grants the lock in FIFO order (strong fairness: the lock is free
\* again and again), a task that can run does run, and lookup_host returns
Fairness ==
  \A c \in Callers :
    /\ SF_vars(Lock(c))
    /\ WF_vars(ResolveHit(c))
    /\ WF_vars(ResolveMiss(c))
    /\ WF_vars(LookupReturns(c))

\* concurrent resolve_addresses calls under fair scheduling
SpecResolveFair == InitResolveFair /\ [][NextResolveFair]_vars /\ Fairness

-----------------------------------------------------------------------------
(* Actions of SpecLoad *)

\* the state after serde_yaml::from_str (config.rs:93)
InitDocs(docs) ==
  /\ lpc = "version"
  /\ base \in docs
  /\ logger = None
  /\ todo = {}
  /\ parsed_upstream = <<>>
  /\ config = None
  /\ upstream_names = {}
  /\ listen_addresses = {}
  /\ used_upstreams = {}
  /\ todo_servers = {}
  /\ warned = {}
  /\ result = None
  /\ ResolverOff

\* a version gate that also lets version 2 through
CheckVersion_Lenient ==
  /\ lpc = "version"
  /\ IF base.version \notin {1, 2}
       THEN /\ result' = Custom("Unsupported config version", None)
            /\ lpc' = "done"
       ELSE /\ result' = result
            /\ lpc' = "log"
  /\ UNCHANGED <<base, logger, todo, parsed_upstream, config,
                 upstream_names, listen_addresses, used_upstreams, todo_servers,
                 warned>>
  /\ UNCHANGED rvars

\* config.rs:95-99
CheckVersion ==
  /\ lpc = "version"
  /\ IF base.version # 1
       THEN /\ result' = Custom("Unsupported config version", None)
            /\ lpc' = "done"
       ELSE /\ result' = result
            /\ lpc' = "log"
  /\ UNCHANGED <<base, logger, todo, parsed_upstream, config,
                 upstream_names, listen_addresses, used_upstreams, todo_servers,
                 warned>>
  /\ UNCHANGED rvars

\* a log level that is "disable" when the document has no log field
LogLevel_AbsentDisables == IF base.log = None THEN "disable" ELSE base.log[1]

\* base.log.clone().unwrap_or_else(|| "info".to_string())
LogLevel == IF base.log = None THEN "info" ELSE base.log[1]

\* config.rs:101-110: logging, then the empty parsed_upstream
InitLogging ==
  /\ lpc = "log"
  /\ logger' = IF LogLevel # "disable" THEN Some(LogLevel) ELSE logger
  /\ parsed_upstream' = <<>>
  /\ todo' = DOMAIN base.upstream
  /\ lpc' = "upstreams"
  /\ UNCHANGED <<base, config, upstream_names, listen_addresses,
                 used_upstreams, todo_servers, warned, result>>
  /\ UNCHANGED rvars

\* one iteration of the loop at config.rs:112-166
LoadUpstream(name) ==
  /\ lpc = "upstreams"
  /\ name \in todo
  /\ LET r == ParseUpstream(name, base.upstream[name]) IN
       IF r.ok
         THEN /\ parsed_upstream' = Insert(parsed_upstream, name, r.proxy)
              /\ todo' = todo \ {name}
              /\ UNCHANGED <<lpc, result>>
         ELSE /\ result' = r
              /\ lpc' = "done"
              /\ UNCHANGED <<parsed_upstream, todo>>
  /\ UNCHANGED <<base, logger, config, upstream_names, listen_addresses,
                 used_upstreams, todo_servers, warned>>
  /\ UNCHANGED rvars

\* config.rs:168-179: inject the builtins, move parsed_upstream into the
\* ParsedConfig and enter verify_config; base.servers is read here for the
\* first time
Assemble(maps) ==
  /\ lpc = "upstreams"
  /\ todo = {}
  /\ parsed_upstream' = <<>>
  /\ \E srv \in maps :
       config' = Some([version |-> base.version, log |-> base.log,
                       servers |-> srv,
                       upstream |-> InjectBuiltins(parsed_upstream)])
  /\ lpc' = "verify_names"
  /\ UNCHANGED <<base, logger, todo, upstream_names, listen_addresses,
                 used_upstreams, todo_servers, warned, result>>
  /\ UNCHANGED rvars

\* verify_config, config.rs:183-197: the duplicate upstream name loop
VerifyNames ==
  /\ lpc = "verify_names"
  /\ \E order \in Orders(DOMAIN config[1].upstream) :
     LET r == ScanNames(order, 1, {}) IN
       /\ upstream_names' = r.seen
       /\ IF r.dup # None
            THEN /\ result' = Custom("Duplicate upstream name", r.dup[1])
                 /\ lpc' = "done"
                 /\ todo_servers' = todo_servers
            ELSE /\ result' = result
                 /\ lpc' = "verify_servers"
                 /\ todo_servers' = DOMAIN config[1].servers
  /\ listen_addresses' = {}
  /\ used_upstreams' = {}
  /\ UNCHANGED <<base, logger, todo, parsed_upstream, config, warned>>
  /\ UNCHANGED rvars

\* an iteration that checks used_upstreams before it inserts the server's
\* references
VerifyServer_ChecksBeforeInsert(s) ==
  /\ lpc = "verify_servers"
  /\ s \in todo_servers
  /\ todo_servers' = todo_servers \ {s}
  /\ LET server == config[1].servers[s]
         l == CheckListen(server.listen, listen_addresses)
         used == used_upstreams \cup Referenced(server)
     IN
       /\ listen_addresses' = l.seen
       /\ IF l.dup # None
            THEN /\ result' = Custom("Duplicate listen address", l.dup[1])
                 /\ lpc' = "done"
                 /\ used_upstreams' = used_upstreams
            ELSE /\ used_upstreams' = used
                 /\ IF Missing(used_upstreams, config[1].upstream) # {}
                      THEN /\ \E key \in Missing(used_upstreams, config[1].upstream) :
                                result' = Custom("Upstream not found", key)
                           /\ lpc' = "done"
                      ELSE /\ result' = result
                           /\ lpc' = lpc
  /\ UNCHANGED <<base, logger, todo, parsed_upstream, config,
                 upstream_names, warned>>
  /\ UNCHANGED rvars

\* an iteration that checks the references before the listen addresses
VerifyServer_RefsFirst(s) ==
  /\ lpc = "verify_servers"
  /\ s \in todo_servers
  /\ todo_servers' = todo_servers \ {s}
  /\ LET server == config[1].servers[s]
         l == CheckListen(server.listen, listen_addresses)
         used == used_upstreams \cup Referenced(server)
     IN
       /\ used_upstreams' = used
       /\ IF Missing(used, config[1].upstream) # {}
            THEN /\ \E key \in Missing(used, config[1].upstream) :
                      result' = Custom("Upstream not found", key)
                 /\ lpc' = "done"
                 /\ listen_addresses' = listen_addresses
            ELSE /\ listen_addresses' = l.seen
                 /\ IF l.dup # None
                      THEN /\ result' = Custom("Duplicate listen address", l.dup[1])
                           /\ lpc' = "done"
                      ELSE /\ result' = result
                           /\ lpc' = lpc
  /\ UNCHANGED <<base, logger, todo, parsed_upstream, config,
                 upstream_names, warned>>
  /\ UNCHANGED rvars

\* verify_config, config.rs:199-227: one iteration of the loop over servers
VerifyServer(s) ==
  /\ lpc = "verify_servers"
  /\ s \in todo_servers
  /\ todo_servers' = todo_servers \ {s}
  /\ LET server == config[1].servers[s]
         l == CheckListen(server.listen, listen_addresses)
         used == used_upstreams \cup Referenced(server)
     IN
       /\ listen_addresses' = l.seen
       /\ IF l.dup # None
            THEN /\ result' = Custom("Duplicate listen address", l.dup[1])
                 /\ lpc' = "done"
                 /\ used_upstreams' = used_upstreams
            ELSE /\ used_upstreams' = used
                 /\ IF Missing(used, config[1].upstream) # {}
                      THEN /\ \E key \in Missing(used, config[1].upstream) :
                                result' = Custom("Upstream not found", key)
                           /\ lpc' = "done"
                      ELSE /\ result' = result
                           /\ lpc' = lpc
  /\ UNCHANGED <<base, logger, todo, parsed_upstream, config,
                 upstream_names, warned>>
  /\ UNCHANGED rvars

\* verify_config, config.rs:229-235: the unused-upstream warnings, then Ok
VerifyDone ==
  /\ lpc = "verify_servers"
  /\ todo_servers = {}
  /\ warned' = {key \in upstream_names :
                  key \notin used_upstreams /\ key # "echo" /\ key # "ban"}
  /\ result' = Loaded
  /\ lpc' = "done"
  /\ UNCHANGED <<base, logger, todo, parsed_upstream, config,
                 upstream_names, listen_addresses, used_upstreams, todo_servers>>
  /\ UNCHANGED rvars

InitLoad == InitDocs(BaseDocs)

NextLoad ==
  \/ CheckVersion
  \/ InitLogging
  \/ \E name \in UserNames : LoadUpstream(name)
  \/ Assemble(OneServerMaps)
  \/ VerifyNames
  \/ \E s \in ServerNames : VerifyServer(s)
  \/ VerifyDone

\* load_config on any document with at most one server
SpecLoad == InitLoad /\ [][NextLoad]_vars

InitVerify == InitDocs(ValidDocs)

NextVerify ==
  \/ CheckVersion
  \/ InitLogging
  \/ \E name \in UserNames : LoadUpstream(name)
  \/ Assemble(ServerMaps)
  \/ VerifyNames
  \/ \E s \in ServerNames : VerifyServer(s)
  \/ VerifyDone

\* load_config on the documents that pass up to verify_config, with any servers
SpecVerify == InitVerify /\ [][NextVerify]_vars

NextScope ==
  \/ CheckVersion
  \/ InitLogging
  \/ \E name \in UserNames : LoadUpstream(name)
  \/ Assemble(ScopeServerMaps)
  \/ VerifyNames
  \/ \E s \in ServerNames : VerifyServer(s)
  \/ VerifyDone

\* load_config on valid documents whose servers refer to declared, builtin
\* and undeclared upstreams
SpecScope == InitVerify /\ [][NextScope]_vars

InitFullDocs == InitDocs(FullDocs)

NextDocs ==
  \/ CheckVersion
  \/ InitLogging
  \/ \E name \in UserNames : LoadUpstream(name)
  \/ Assemble({base.servers})
  \/ VerifyNames
  \/ \E s \in ServerNames : VerifyServer(s)
  \/ VerifyDone

\* load_config on whole documents: base.servers is fixed from the start
SpecDocs == InitFullDocs /\ [][NextDocs]_vars

-----------------------------------------------------------------------------
(* Claims about address resolution, checked under SpecResolve *)

Busy(c) == pc[c] \in {"resolve", "lookup"}
\* caller c leaves the freshness check of UpstreamAddress::resolve in this step
Decides(c) == pc[c] = "resolve" /\ pc'[c] # "resolve"
\* caller c's lookup_host completes in this step
Completes(c) == pc[c] = "lookup" /\ pc'[c] = "done"

\* C1: N calls issued concurrently on a cache that was never resolved perform
\* exactly one DNS lookup in total and all return the same outcome (the same
\* list, or the same error).
C1_ColdCallsShareOneLookup ==
  (ncalls = NumCallers /\ \A c \in Callers : pc[c] = "done" /\ cold[c])
    => /\ lookups = 1
       /\ \A c, d \in Callers : ret[c] = ret[d]

\* C2: at most one DNS lookup per upstream is in flight, and while a caller is
\* between its freshness check and its cache update it holds the lock and no
\* other caller reads or writes the cache.
C2_AtMostOneLookupInFlight ==
  /\ Cardinality({c \in Callers : pc[c] = "lookup"}) <= 1
  /\ Cardinality({c \in Callers : Busy(c)}) <= 1
  /\ \A c \in Callers : Busy(c) => lock = {c}

\* C2 witness: one caller's lookup is in flight while another caller waits
\* for the lock.
C2_Witness ==
  \E c, d \in Callers : c # d /\ pc[c] = "lookup" /\ pc[d] = "lock" /\ lock = {c}

\* C3: a resolve call made less than 3 seconds after a failed lookup returns
\* that failure and performs no new DNS lookup.
C3_NegativeCaching ==
  [][\A c \in Callers :
       (Decides(c) /\ lastErr # None /\ now - lastErr[1].at < NegTTL)
         => /\ pc'[c] = "done"
            /\ ret'[c] = Err(lastErr[1].err)
            /\ lookups' = lookups]_vars

\* C4 as claimed: a resolve call made less than 60 seconds after a successful
\* lookup that returned L returns exactly L and performs no new DNS lookup,
\* for every L.
C4_PositiveCachingAnyList ==
  [][\A c \in Callers :
       (Decides(c) /\ lastOk # None /\ now - lastOk[1].at < PosTTL)
         => /\ pc'[c] = "done"
            /\ ret'[c] = Ok(lastOk[1].addrs)
            /\ lookups' = lookups]_vars

\* C4 as amended: a resolve call made less than 60 seconds after a successful
\* lookup that returned a non-empty list L returns exactly L and performs no
\* new DNS lookup.
C4_PositiveCachingNonEmpty ==
  [][\A c \in Callers :
       (Decides(c) /\ lastOk # None /\ now - lastOk[1].at < PosTTL
          /\ lastOk[1].addrs # <<>>)
         => /\ pc'[c] = "done"
            /\ ret'[c] = Ok(lastOk[1].addrs)
            /\ lookups' = lookups]_vars

\* C4 witness: two calls have returned the same non-empty list, one lookup was
\* made, and time has passed since it (still inside the 60 s window).
C4_Witness ==
  /\ lastOk # None /\ lastOk[1].addrs # <<>>
  /\ ncalls = 2 /\ lookups = 1
  /\ now > lastOk[1].at /\ now - lastOk[1].at < PosTTL
  /\ \A c \in Callers : pc[c] = "done" /\ ret[c] = Ok(lastOk[1].addrs)

\* the elements of answer that lie in S, in the order of answer
RECURSIVE KeepIn(_, _)
KeepIn(S, answer) ==
  IF answer = <<>> THEN <<>>
  ELSE IF Head(answer) \in S
    THEN <<Head(answer)>> \o KeepIn(S, Tail(answer))
    ELSE KeepIn(S, Tail(answer))

\* the family a mode asks for
Family(mode) ==
  CASE mode = "Ipv4" -> V4Addrs
    [] mode = "Ipv6" -> V6Addrs
    [] mode = "Ipv4AndIpv6" -> SocketAddrs

\* C5: a lookup that succeeds with answer A stores and returns exactly the
\* elements of A, in order, of the family of the mode (all of A for
\* Ipv4AndIpv6); with no matching element it returns an empty success.
C5_ProtocolFiltering ==
  [][\A c \in Callers :
       (Completes(c) /\ lastOk' # lastOk)
         => LET want == KeepIn(Family(ResolutionModeFrom(protocol)),
                               lastOk'[1].answer)
            IN /\ resolved_addresses' = want
               /\ ret'[c] = Ok(want)]_vars

\* C5 witness: in Ipv6 mode a mixed answer was filtered down to its IPv6 part
\* and returned.
C5_Witness ==
  /\ protocol = "tcp6"
  /\ lastOk # None
  /\ \E i \in DOMAIN lastOk[1].answer : is_ipv4(lastOk[1].answer[i])
  /\ \E i \in DOMAIN lastOk[1].answer : is_ipv6(lastOk[1].answer[i])
  /\ \E c \in Callers : pc[c] = "done" /\ ret[c] = Ok(lastOk[1].addrs)
  /\ Len(resolved_addresses) = 1

\* C6: a call whose lookup fails returns that lookup's error, a call whose
\* lookup succeeds returns Ok; an error is returned only by a call whose
\* lookup failed, and an empty Ok list only by a call whose lookup succeeded.
C6_ErrorsNotSwallowed ==
  [][\A c \in Callers :
       /\ Completes(c) =>
            /\ lastErr' # lastErr \/ lastOk' # lastOk
            /\ lastErr' # lastErr => ret'[c] = Err(lastErr'[1].err)
            /\ lastOk' # lastOk => ret'[c].kind = "ok"
       /\ (pc[c] # "done" /\ pc'[c] = "done" /\ ret'[c].kind = "err")
            => Completes(c) /\ lastErr' # lastErr
       /\ (pc[c] # "done" /\ pc'[c] = "done" /\ ret'[c] = Ok(<<>>))
            => Completes(c) /\ lastOk' # lastOk]_vars

\* C6 witness: a call has returned the error of the lookup it made.
C6_Witness ==
  \E c \in Callers :
    /\ pc[c] = "done" /\ lastErr # None
    /\ ret[c] = Err(lastErr[1].err)

-----------------------------------------------------------------------------
(* Claims about loading and validation *)

Cfg == config[1]
Finished == lpc = "done"
\* load_config got as far as calling verify_config
Verified == Finished /\ config # None
Failed(msg) == Finished /\ ~result.ok /\ result.msg = msg

Values(m) == {m[k] : k \in DOMAIN m}
DefaultOf(server) == IF server.default # None THEN {server.default[1]} ELSE {}
\* every upstream name a server mentions
Mentioned(server) ==
  DefaultOf(server) \cup (IF server.sni # None THEN Values(server.sni[1]) ELSE {})
\* the upstream names a server can route to: its default, and its sni values
\* when its tls flag is true
Routed(server) ==
  DefaultOf(server)
    \cup (IF server.tls = Some(TRUE) /\ server.sni # None
            THEN Values(server.sni[1]) ELSE {})

\* the places (server, index) of the listen addresses of the servers in D
Places(srv, D) == UNION {{<<s, i>> : i \in 1..Len(srv[s].listen)} : s \in D}
\* the addresses that occur at two places of the servers in D
Repeated(srv, D) ==
  {srv[p[1]].listen[p[2]] : p \in
     {p \in Places(srv, D) :
        \E q \in Places(srv, D) :
          q # p /\ srv[q[1]].listen[q[2]] = srv[p[1]].listen[p[2]]}}
\* the servers whose loop iteration has started
Examined ==
  IF lpc \in {"verify_servers", "done"} /\ config # None
       /\ (Finished => result.ok \/ result.msg # "Duplicate upstream name")
    THEN DOMAIN Cfg.servers \ todo_servers
    ELSE {}

\* C7 as claimed: in every successfully loaded Config every server default and
\* every sni map value is a key of the upstream table.
C7_NoDanglingReference ==
  (Finished /\ result.ok)
    => \A s \in DOMAIN Cfg.servers :
         Mentioned(Cfg.servers[s]) \subseteq DOMAIN Cfg.upstream

\* C7 as amended: in every successfully loaded Config every server default,
\* and every sni map value of a server whose tls flag is true, is a key of the
\* upstream table; "Upstream not found" names such a reference that is absent
\* from the table, and it is the error whenever such a reference exists and
\* no listen address is repeated.
C7_NoDanglingRoutedReference ==
  /\ (Finished /\ result.ok)
       => \A s \in DOMAIN Cfg.servers :
            Routed(Cfg.servers[s]) \subseteq DOMAIN Cfg.upstream
  /\ Failed("Upstream not found")
       => \E s \in DOMAIN Cfg.servers :
            /\ result.arg \in Routed(Cfg.servers[s])
            /\ result.arg \notin DOMAIN Cfg.upstream
  /\ (/\ Verified
      /\ \E s \in DOMAIN Cfg.servers :
           ~(Routed(Cfg.servers[s]) \subseteq DOMAIN Cfg.upstream)
      /\ Repeated(Cfg.servers, DOMAIN Cfg.servers) = {})
       => Failed("Upstream not found")

\* C7 witness: a load has failed with "Upstream not found" on the sni value of
\* a tls server that has no default.
C7_Witness ==
  /\ Failed("Upstream not found")
  /\ \E s \in DOMAIN Cfg.servers :
       /\ Cfg.servers[s].tls = Some(TRUE)
       /\ Cfg.servers[s].default = None
       /\ Cfg.servers[s].sni # None
       /\ result.arg \in Values(Cfg.servers[s].sni[1])

\* C8: in every successfully loaded Config no listen address occurs twice
\* across all servers' listen lists; a configuration with a repeat is
\* rejected, and with "Duplicate listen address" naming a repeated address
\* once the repeat lies in the servers the check has examined.
C8_ListenAddressesUnique ==
  /\ (Finished /\ result.ok)
       => Repeated(Cfg.servers, DOMAIN Cfg.servers) = {}
  /\ (Verified /\ Repeated(Cfg.servers, DOMAIN Cfg.servers) # {})
       => ~result.ok
  /\ (Verified /\ Repeated(Cfg.servers, Examined) # {})
       => /\ Failed("Duplicate listen address")
          /\ result.arg \in Repeated(Cfg.servers, Examined)
  /\ Failed("Duplicate listen address")
       => result.arg \in Repeated(Cfg.servers, Examined)

\* C8 witness: a load has failed with "Duplicate listen address" on an address
\* that two different servers listen on, neither repeating it itself.
C8_Witness ==
  /\ Failed("Duplicate listen address")
  /\ \A s \in DOMAIN Cfg.servers : Repeated(Cfg.servers, {s}) = {}

\* C9: loading a configuration in which a user-declared upstream is named
\* "ban" or "echo", like the injected builtins, fails with "Duplicate
\* upstream name".
C9_DuplicateUpstreamNameRejected ==
  (Verified /\ DOMAIN base.upstream \cap BuiltinNames # {})
    => Failed("Duplicate upstream name")

\* C10: for every document that loads, the upstream table holds "ban" (Ban),
\* "echo" (Echo) and one Proxy entry per user-declared upstream, so its size
\* is the number of user-declared upstreams plus 2.
C10_BuiltinInjection ==
  (Finished /\ result.ok)
    => /\ {"ban", "echo"} \subseteq DOMAIN Cfg.upstream
       /\ Cfg.upstream["ban"] = Ban
       /\ Cfg.upstream["echo"] = Echo
       /\ \A n \in DOMAIN base.upstream :
            n \in DOMAIN Cfg.upstream /\ Cfg.upstream[n].kind = "Proxy"
       /\ Cardinality(DOMAIN Cfg.upstream) = Cardinality(DOMAIN base.upstream) + 2

\* C11: loading a document whose version is not 1 fails with "Unsupported
\* config version", whatever its log setting, upstream URLs and servers, and
\* it does so before logging is initialised and before any upstream is parsed:
\* past the version check such a load has ended with that error, the logger
\* untouched, no upstream parsed and verify_config never entered.
C11_VersionGate ==
  (base.version # 1 /\ lpc # "version")
    => /\ Failed("Unsupported config version")
       /\ logger = None
       /\ parsed_upstream = <<>> /\ todo = {}
       /\ config = None

\* C11 witness: the version error on a document that also sets a log level,
\* gives an unparseable upstream URL, repeats a listen address and refers to
\* an undeclared upstream.
C11_Witness ==
  /\ Failed("Unsupported config version")
  /\ base.log = Some("debug")
  /\ \E n \in DOMAIN base.upstream : ~UrlParse(base.upstream[n]).parses
  /\ \E s \in DOMAIN base.servers :
       /\ Repeated(base.servers, {s}) # {}
       /\ base.servers[s].default # None
       /\ base.servers[s].default[1] \notin DOMAIN base.upstream

\* the Proxy upstream a URL of scheme sch, host h and port p must yield
ProxyOf(name, sch, h, p) ==
  [ok |-> TRUE,
   proxy |-> [kind |-> "Proxy", name |-> name, addr |-> h \o ":" \o ToString(p),
              protocol |-> sch, addresses |-> h \o ":" \o ToString(p)]]
\* the upstream loop has failed (load_config returned from inside it)
FailedInLoop == Finished /\ base.version = 1 /\ config = None
\* the entries the upstream loop has inserted so far
Inserted == IF lpc = "upstreams" THEN DOMAIN parsed_upstream ELSE {}

\* what C12 as claimed expects of one entry: the scheme is looked at first
ExpectedSchemeFirst(name, text) ==
  LET u == UrlParse(text) IN
  IF ~u.parses THEN Custom("Invalid upstream url", text)
  ELSE IF u.scheme \notin {"tcp", "tcp4", "tcp6"}
    THEN Custom("Invalid upstream scheme", text)
  ELSE IF u.host = None \/ (u.port = None /\ KnownDefaultPort(u.scheme) = None)
    THEN Custom("Invalid upstream url", text)
  ELSE ProxyOf(name, u.scheme, u.host[1],
               IF u.port # None THEN u.port[1] ELSE KnownDefaultPort(u.scheme)[1])

\* what C12 as amended expects of one entry: host and port are looked at
\* first, whatever the scheme
ExpectedHostPortFirst(name, text) ==
  LET u == UrlParse(text) IN
  IF ~u.parses THEN Custom("Invalid upstream url", text)
  ELSE IF u.host = None \/ (u.port = None /\ KnownDefaultPort(u.scheme) = None)
    THEN Custom("Invalid upstream url", text)
  ELSE IF u.scheme \notin {"tcp", "tcp4", "tcp6"}
    THEN Custom("Invalid upstream scheme", text)
  ELSE ProxyOf(name, u.scheme, u.host[1], u.port[1])

\* C12 as claimed: a URL that parses with a scheme other than tcp, tcp4, tcp6
\* is rejected with "Invalid upstream scheme" whether or not it has a host or
\* a port; one with an accepted scheme but no host or no port with "Invalid
\* upstream url"; one with accepted scheme, host h and port p yields a Proxy
\* with addr "h:p", protocol the scheme and a cache seeded with "h:p".
C12_UrlValidationSchemeFirst ==
  /\ FailedInLoop
       => \E n \in DOMAIN base.upstream :
            result = ExpectedSchemeFirst(n, base.upstream[n])
  /\ \A n \in Inserted :
       [ok |-> TRUE, proxy |-> parsed_upstream[n]]
         = ExpectedSchemeFirst(n, base.upstream[n])
  /\ config # None
       => \A n \in DOMAIN base.upstream :
            ExpectedSchemeFirst(n, base.upstream[n]).ok

\* C12 as amended: a URL that does not parse, has no host, or has neither an
\* explicit port nor a default port of its scheme is rejected with "Invalid
\* upstream url", whatever its scheme; a URL with a host and a port whose
\* scheme is not tcp, tcp4 or tcp6 is rejected with "Invalid upstream scheme";
\* a URL with accepted scheme, host h and port p yields a Proxy with addr
\* "h:p", protocol the scheme and a cache seeded with "h:p". A load that fails
\* in the upstream loop reports one of its entries so, every entry inserted is
\* that Proxy, and verify_config is reached only when every entry is accepted.
C12_UrlValidationHostPortFirst ==
  /\ FailedInLoop
       => \E n \in DOMAIN base.upstream :
            result = ExpectedHostPortFirst(n, base.upstream[n])
  /\ \A n \in Inserted :
       [ok |-> TRUE, proxy |-> parsed_upstream[n]]
         = ExpectedHostPortFirst(n, base.upstream[n])
  /\ config # None
       => \A n \in DOMAIN base.upstream :
            ExpectedHostPortFirst(n, base.upstream[n]).ok

\* C12 witness: one entry was parsed into its Proxy and the load then failed
\* on a URL that has a scheme other than tcp, tcp4, tcp6 and no host.
C12_Witness ==
  /\ Failed("Invalid upstream url")
  /\ result.arg = "unix:/run/db.sock"
  /\ \E n \in DOMAIN parsed_upstream :
       /\ parsed_upstream[n].addr = "db.internal:5432"
       /\ parsed_upstream[n].protocol = "tcp4"

\* the servers of D that route to an upstream absent from the table
Dangling(D) ==
  {s \in D : ~(Routed(Cfg.servers[s]) \subseteq DOMAIN Cfg.upstream)}
\* verify_config has returned on a configuration that has both a repeated
\* listen address and a reference to an undeclared upstream
BothViolations ==
  /\ Verified
  /\ Repeated(Cfg.servers, DOMAIN Cfg.servers) # {}
  /\ Dangling(DOMAIN Cfg.servers) # {}

\* C13 as claimed: listen-address uniqueness over all servers is checked
\* before any reference, so a configuration with both a repeated listen
\* address and a reference to an undeclared upstream always fails with
\* "Duplicate listen address", for every iteration order of the servers.
C13_ListenErrorAlwaysWins ==
  BothViolations => Failed("Duplicate listen address")

\* C13 as amended: the servers are examined one by one in iteration order,
\* each server's listen addresses (against all addresses seen so far) before
\* the references collected so far. A configuration with both violations
\* always fails, with one of the two errors; "Upstream not found" is reported
\* only when no address repeats among the servers examined so far, and
\* "Duplicate listen address" only when at most the server being examined
\* has an undeclared reference; when every server with an undeclared
\* reference repeats an address in its own listen list the error is
\* "Duplicate listen address" for every iteration order.
C13_PerServerOrder ==
  /\ BothViolations
       => Failed("Duplicate listen address") \/ Failed("Upstream not found")
  /\ Failed("Upstream not found") => Repeated(Cfg.servers, Examined) = {}
  /\ Failed("Duplicate listen address")
       => \E s \in Examined : Dangling(Examined \ {s}) = {}
  /\ (/\ BothViolations
      /\ \A s \in Dangling(DOMAIN Cfg.servers) : Repeated(Cfg.servers, {s}) # {})
       => Failed("Duplicate listen address")

\* C13 witness: a configuration with an address repeated across its servers
\* and an undeclared reference has failed with "Upstream not found".
C13_Witness ==
  /\ BothViolations
  /\ Failed("Upstream not found")

-----------------------------------------------------------------------------
(* Further claims about address resolution *)

\* caller c's call returns from the fast path in this step
Hits(c) == pc[c] = "resolve" /\ pc'[c] = "done"

LatestOk == lastOk # None /\ (lastErr = None \/ lastOk[1].n > lastErr[1].n)
LatestErr == lastErr # None /\ (lastOk = None \/ lastErr[1].n > lastOk[1].n)
\* the TTL in force has elapsed since the timestamp
Expired ==
  \/ resolved_time # None /\ ttl # None /\ now - resolved_time[1] >= ttl[1]
  \/ LatestOk /\ now - lastOk[1].at >= PosTTL
  \/ LatestErr /\ now - lastErr[1].at >= NegTTL

\* C15: once the TTL in force has elapsed since the timestamp (60 s or more
\* after a successful lookup, 3 s or more after a failed one) the next resolve
\* call performs a fresh lookup instead of answering from the cache, and the
\* outcome of that lookup replaces timestamp and TTL.
C15_CacheExpiry ==
  [][\A c \in Callers :
       /\ (Decides(c) /\ Expired)
            => pc'[c] = "lookup" /\ lookups' = lookups + 1
       /\ Completes(c)
            => /\ resolved_time' = Some(now)
               /\ ret'[c].kind = "ok" => ttl' = Some(PosTTL)
               /\ ret'[c].kind = "err" => ttl' = Some(NegTTL)]_vars

\* C15 witness: a lookup is in flight for a call made when the cache held a
\* non-empty list whose 60 s TTL had elapsed.
C15_Witness ==
  \E c \in Callers :
    /\ pc[c] = "lookup"
    /\ resolved_addresses # <<>>
    /\ ttl = Some(PosTTL) /\ resolved_time # None
    /\ now - resolved_time[1] >= PosTTL

\* caller c is inside resolve_addresses
Inside(c) == pc[c] \in {"lock", "resolve", "lookup"}

\* C16: with lookups that complete and a lock granted fairly, every
\* resolve_addresses call eventually returns, a caller waiting for the lock
\* while a lookup is in flight included, and a caller that has returned, from
\* the success or the failure path, no longer holds the lock.
C16_ResolveProgress ==
  /\ \A c \in Callers : Inside(c) ~> (pc[c] = "done" /\ c \notin lock)
  /\ [](\A c \in Callers : pc[c] \in {"idle", "done"} => c \notin lock)

\* C16 witness: two calls issued on the cold cache have both returned, one
\* from the failure path and one from the success path, each after its own
\* lookup, and the lock is free.
C16_Witness ==
  \E c, d \in Callers :
    /\ c # d /\ cold[c] /\ cold[d]
    /\ pc[c] = "done" /\ ret[c].kind = "err"
    /\ pc[d] = "done" /\ ret[d].kind = "ok"
    /\ lookups = 2 /\ lock = {}

\* caller c's call returns in this step
Returns(c) == pc[c] # "done" /\ pc'[c] = "done"

\* C19: every non-error list a resolve call returns was produced by a lookup
\* that succeeded less than 60 seconds before the return; in particular, once
\* the positive TTL has expired and a later lookup has failed, no call
\* returns the list stored before as a success.
C19_ReturnedListIsFresh ==
  [][\A c \in Callers :
       (Returns(c) /\ ret'[c].kind = "ok")
         => /\ lastOk' # None
            /\ ret'[c].addrs = lastOk'[1].addrs
            /\ now' - lastOk'[1].at < PosTTL]_vars

-----------------------------------------------------------------------------
(* Further claims about loading *)

\* the Proxy entries of an upstream table
Proxies(table) == {n \in DOMAIN table : table[n].kind = "Proxy"}
\* the value (*self.protocol).into() has for the Proxy entry n of a table
ModeOf(table, n) == ResolutionModeFrom(table[n].protocol)

\* C17: the scheme string maps "tcp" to Ipv4AndIpv6, "tcp4" to Ipv4, "tcp6"
\* to Ipv6 and panics on any other string; every Proxy upstream that
\* load_config builds, and so every one in a loaded Config, has its protocol
\* in {tcp, tcp4, tcp6}, so the conversion in resolve_addresses never panics.
C17_PanicUnreachable ==
  /\ ResolutionModeFrom("tcp") = "Ipv4AndIpv6"
  /\ ResolutionModeFrom("tcp4") = "Ipv4"
  /\ ResolutionModeFrom("tcp6") = "Ipv6"
  /\ \A u \in Urls :
       UrlParse(u).scheme \notin {"tcp", "tcp4", "tcp6"}
         => ResolutionModeFrom(UrlParse(u).scheme) = "panic"
  /\ \A n \in Proxies(parsed_upstream) :
       /\ parsed_upstream[n].protocol \in {"tcp", "tcp4", "tcp6"}
       /\ ModeOf(parsed_upstream, n) # "panic"
  /\ config # None
       => \A n \in Proxies(Cfg.upstream) :
            /\ Cfg.upstream[n].protocol \in {"tcp", "tcp4", "tcp6"}
            /\ ModeOf(Cfg.upstream, n) # "panic"

\* C17 witness: a document has loaded with a Proxy upstream of scheme tcp6,
\* whose mode is Ipv6.
C17_Witness ==
  /\ Finished /\ result.ok
  /\ \E n \in Proxies(Cfg.upstream) :
       Cfg.upstream[n].protocol = "tcp6" /\ ModeOf(Cfg.upstream, n) = "Ipv6"

\* the load has passed the version gate and the logging step
PastLogging == base.version = 1 /\ lpc \notin {"version", "log"}

\* C18 as claimed: in a load that passes the version gate logging is
\* initialised if and only if the document configures a log level other than
\* "disable", and then at that level; a document without a log field does not
\* initialise logging.
C18_LogOnlyWhenConfigured ==
  PastLogging
    => /\ logger # None <=> (base.log # None /\ base.log # Some("disable"))
       /\ logger # None => logger = base.log

\* C18 as amended: in a load that passes the version gate logging is
\* initialised if and only if the log level is not "disable", where the level
\* of a document without a log field is "info"; it is initialised at the
\* configured level, and at "info" for a document without a log field.
C18_LogDefaultsToInfo ==
  /\ PastLogging
       => logger = (IF base.log = Some("disable") THEN None
                    ELSE IF base.log = None THEN Some("info")
                    ELSE base.log)
  /\ ~PastLogging => logger = None

\* C18 witness: a document without a log field has passed the logging step
\* and the logger is initialised at "info".
C18_Witness ==
  PastLogging /\ base.log = None /\ logger = Some("info")

\* the loop at config.rs:199 goes on to the next server
GoesOn == [ok |-> TRUE, next |-> TRUE]
\* the results one iteration of that loop can have for `server`, with `seen`
\* the listen addresses of the servers before and `used` the set whose keys
\* are looked up in the table: an error that ends verify_config (one per key
\* the iteration over `used` may meet first), or GoesOn
IterationOutcomes(server, seen, used) ==
  IF CheckListen(server.listen, seen).dup # None
    THEN {Custom("Duplicate listen address",
                 CheckListen(server.listen, seen).dup[1])}
  ELSE IF Missing(used, Cfg.upstream) # {}
    THEN {Custom("Upstream not found", k) : k \in Missing(used, Cfg.upstream)}
  ELSE {GoesOn}
\* the iteration for server s starts in this step
Examines(s) ==
  lpc = "verify_servers" /\ s \in todo_servers /\ s \notin todo_servers'

\* C20: for every configuration and every iteration order of the servers,
\* verify_config with used_upstreams accumulated across the servers has the
\* same results as a variant that looks up only the references of the server
\* being examined: in every iteration the accumulated set and the server's
\* own references allow the same outcomes (the same error with the same
\* name, or going on), and the outcome taken is one of them.
C20_AccumulationEqualsScoping ==
  [][\A s \in ServerNames :
       Examines(s)
         => LET server == Cfg.servers[s]
                scoped == IterationOutcomes(server, listen_addresses,
                                            Referenced(server))
                global == IterationOutcomes(server, listen_addresses,
                                            used_upstreams \cup Referenced(server))
            IN /\ global = scoped
               /\ (IF lpc' = "done" THEN result' ELSE GoesOn) \in scoped
               /\ lpc' = "done" \/ (lpc' = lpc /\ result' = result)]_vars

\* C20 witness: the second server examined has failed on a name of its own
\* while used_upstreams also held names that only the first server refers to.
C20_Witness ==
  /\ Failed("Upstream not found")
  /\ \E a, b \in DOMAIN Cfg.servers :
       /\ a # b /\ Examined = {a, b}
       /\ result.arg \in Referenced(Cfg.servers[b])
       /\ result.arg \notin Referenced(Cfg.servers[a])
       /\ Referenced(Cfg.servers[a]) \ Referenced(Cfg.servers[b]) # {}
       /\ Referenced(Cfg.servers[a]) \subseteq used_upstreams

====
